---- MODULE Spec2Model ----
(***************************************************************************)
(* A model of parse_goodreads.py: one run of main(), which downloads the   *)
(* paginated review list of a Goodreads user page by page, turns every     *)
(* review row into a seven-field record, writes the records to a TSV file  *)
(* and afterwards re-reads the file to look at its "Date Read" column.     *)
(*                                                                         *)
(* A text is a sequence of tokens; the token " " is whitespace and the     *)
(* empty sequence is the empty string.  An element of the parsed markup is *)
(* None or a record [kind |-> "Tag", ...].                                 *)
(***************************************************************************)
EXTENDS Naturals, Sequences, FiniteSets, TLC

VARIABLES
  pc,            \* position of the run in main() / download_and_process_goodreads_data
  cookies,       \* the local variable cookies (None or the list loaded from cookies.json)
  outFile,       \* the lines of the output file, each line a sequence of fields
  pagination,    \* the local variable pagination (None or the pagination div)
  total_pages,   \* the local variable total_pages
  page,          \* the loop variable page (0 before the loop)
  review_rows,   \* the local variable review_rows of the current page
  row_idx,       \* number of rows of review_rows the inner loop has taken
  fetched,       \* history: the review_rows of every page the loop has fetched
  trace,         \* history: the requests issued and the pauses made by the run
  printed,       \* the lines printed to the operator
  exc,           \* the exception raised in the run, if any, and where
  result         \* the return value of download_and_process_goodreads_data

vars == <<pc, cookies, outFile, pagination, total_pages, page, review_rows,
          row_idx, fetched, trace, printed, exc, result>>

-----------------------------------------------------------------------------
(* Bounds of the model.                                                    *)

\* the largest page number a pagination control of the site names
MaxPages == 2

\* the largest number of books on the user's shelves: the review rows the
\* site serves over the pages of one run
MaxBooks == 3

-----------------------------------------------------------------------------
(* Texts.                                                                  *)

None == [kind |-> "None"]

WS == " "

EmptyText == <<>>

T(s) == <<s>>

RECURSIVE LStrip(_)
LStrip(t) == IF t # <<>> /\ Head(t) = WS THEN LStrip(Tail(t)) ELSE t

RECURSIVE RStrip(_)
RStrip(t) ==
  IF t # <<>> /\ t[Len(t)] = WS THEN RStrip(SubSeq(t, 1, Len(t) - 1)) ELSE t

\* str.strip()
Strip(t) == RStrip(LStrip(t))

IsWord(x) == x # WS

\* str.split(): the maximal runs of non-whitespace; one token is one run
Split(t) == SelectSeq(t, IsWord)

RECURSIVE Collapse(_)
\* runs of whitespace tokens reduced to one token (the \s+ of a strptime format)
Collapse(t) ==
  IF Len(t) < 2 THEN t
  ELSE IF t[1] = WS /\ t[2] = WS THEN Collapse(Tail(t))
  ELSE <<t[1]>> \o Collapse(Tail(t))

\* element.text.strip() if element else default; a Tag is always truthy
get_text_or_default(element) ==
  IF element = None THEN EmptyText ELSE Strip(element.text)

-----------------------------------------------------------------------------
(* convert_date: strptime(date_str, "%b %d, %Y").strftime("%Y-%m-%d"), the *)
(* text passed through unchanged on a ValueError.                          *)

MonthNumber ==
  [Jan |-> "01", Feb |-> "02", Mar |-> "03", Apr |-> "04", May |-> "05",
   Jun |-> "06", Jul |-> "07", Aug |-> "08", Sep |-> "09", Oct |-> "10",
   Nov |-> "11", Dec |-> "12"]

\* %d: one or two digits; rendered with two
DayNumber ==
  [x \in {"1", "01", "5", "05", "9", "28", "31"} |->
     CASE x \in {"1", "01"} -> "01"
       [] x \in {"5", "05"} -> "05"
       [] x = "9" -> "09"
       [] OTHER -> x]

\* %Y: four digits
YearTokens == {"1999", "2022", "2023"}

\* days the month does not have make strptime raise ValueError
ValidDay(m, d) == ~(m = "Feb" /\ d = "31")

ParsesAsDate(t) ==
  LET c == Collapse(t)
  IN  /\ Len(c) = 6
      /\ c[1] \in DOMAIN MonthNumber
      /\ c[2] = WS
      /\ c[3] \in DOMAIN DayNumber
      /\ c[4] = ","
      /\ c[5] = WS
      /\ c[6] \in YearTokens
      /\ ValidDay(c[1], c[3])

convert_date(date_str) ==
  IF ParsesAsDate(date_str)
  THEN LET c == Collapse(date_str)
       IN  <<c[6], "-", MonthNumber[c[1]], "-", DayNumber[c[3]]>>
  ELSE date_str

-----------------------------------------------------------------------------
(* fetch_html: the cookies attached to a request and the ways it ends.     *)

\* requests.exceptions.RequestException and the subclasses session.get and
\* raise_for_status raise
RequestExceptions == {"HTTPError", "ConnectionError", "Timeout"}

StartsWith(s, prefix) ==
  Len(s) >= Len(prefix) /\ SubSeq(s, 1, Len(prefix)) = prefix

\* cookie.get(key, default)
CookieGet(cookie, key, default) ==
  IF key \in DOMAIN cookie THEN cookie[key] ELSE default

\* the condition of line 63
CookiePasses(cookie) ==
  \/ ~CookieGet(cookie, "hostOnly", FALSE)
  \/ StartsWith(CookieGet(cookie, "domain", EmptyText), T(".goodreads.com"))
  \/ CookieGet(cookie, "domain", EmptyText) = T("www.goodreads.com")

RECURSIVE CookieDict(_)
\* cookie_dict after the loop of lines 61-64: name -> value, a later entry of
\* the same name replacing an earlier one
CookieDict(cs) ==
  IF cs = <<>> THEN <<>>
  ELSE LET rest == CookieDict(SubSeq(cs, 1, Len(cs) - 1))
           c    == cs[Len(cs)]
       IN  IF CookiePasses(c)
           THEN [n \in (DOMAIN rest) \cup {c.name} |->
                   IF n = c.name THEN c.value ELSE rest[n]]
           ELSE rest

\* the cookies of the session that issues the request
SessionCookies(cs) == IF cs = None THEN <<>> ELSE CookieDict(cs)

\* one request: session.get(url, headers, timeout) for the page, with the
\* session's cookies
Request(p, cs) == [ev |-> "get", page |-> p, cookies |-> SessionCookies(cs)]

-----------------------------------------------------------------------------
(* The markup of a review row.  A row names, for every lookup the code     *)
(* makes on it, what the lookup finds: None or a Tag.  A field cell is     *)
(* [kind |-> "Tag", text, child], child being the nested element the code  *)
(* looks for in the cell (None or a Tag with its text).                    *)

Elem(t) == [kind |-> "Tag", text |-> t]

Cell(t, child) == [kind |-> "Tag", text |-> t, child |-> child]

\* the div of class js-tooltipTrigger with its attributes
TooltipDiv(attrs) == [kind |-> "Tag", attrs |-> attrs]

Raise(type, at) == [type |-> type, at |-> at]

NoException == Raise("none", "none")

\* the text of the nobr element and its first whitespace-delimited token
NumPagesTokens(cell) == Split(get_text_or_default(cell.child))

fieldnames ==
  <<T("Goodreads ID"), T("Book Title"), T("Date Started"), T("Date Read"),
    T("Author"), T("Average Rating"), T("Number of Pages")>>

\* the dictionary of lines 107-115
BookData(row) ==
  (T("Goodreads ID") :> (IF row.tooltip = None THEN EmptyText
                         ELSE row.tooltip.attrs["data-resource-id"]))
  @@ (T("Book Title") :> get_text_or_default(row.title.child))
  @@ (T("Date Started") :> convert_date(get_text_or_default(row.date_started.child)))
  @@ (T("Date Read") :> convert_date(get_text_or_default(row.date_read.child)))
  @@ (T("Author") :> get_text_or_default(row.author.child))
  @@ (T("Average Rating") :> get_text_or_default(row.avg_rating))
  @@ (T("Number of Pages") :> (IF row.num_pages.child = None THEN EmptyText
                               ELSE NumPagesTokens(row.num_pages)[1]))

\* process_review_row: the dictionary it returns, or the exception that the
\* first failing statement raises (.find on None, a missing attribute of the
\* tooltip div, [0] of an empty split)
process_review_row(row) ==
  IF row.title = None \/ row.date_started = None \/ row.date_read = None
  THEN [raised |-> Raise("AttributeError", "process_review_row")]
  ELSE IF row.tooltip # None /\ "data-resource-id" \notin DOMAIN row.tooltip.attrs
  THEN [raised |-> Raise("KeyError", "process_review_row")]
  ELSE IF row.author = None \/ row.num_pages = None
  THEN [raised |-> Raise("AttributeError", "process_review_row")]
  ELSE IF row.num_pages.child # None /\ NumPagesTokens(row.num_pages) = <<>>
  THEN [raised |-> Raise("IndexError", "process_review_row")]
  ELSE [raised |-> NoException, value |-> BookData(row)]

-----------------------------------------------------------------------------
(* csv.DictWriter and csv.DictReader over a file of lines of fields.       *)

\* DictWriter.writerow: the values in the order of fieldnames, "" for a key
\* the dictionary lacks
DictRow(names, d) ==
  [i \in 1..Len(names) |-> IF names[i] \in DOMAIN d THEN d[names[i]] ELSE EmptyText]

\* DictWriter.writeheader
HeaderRow(names) == names

\* DictReader: the first line names the columns, every later line is one
\* dictionary; a column the line is too short for maps to None
ReadDict(header, line) ==
  [n \in {header[i] : i \in 1..Len(header)} |->
     LET i == CHOOSE j \in 1..Len(header) :
                header[j] = n /\ \A k \in (j + 1)..Len(header) : header[k] # n
     IN  IF i <= Len(line) THEN line[i] ELSE None]

DictReader(file) ==
  IF file = <<>> THEN <<>>
  ELSE [i \in 1..(Len(file) - 1) |-> ReadDict(file[1], file[i + 1])]

\* row.get(key, default)
DictGet(d, key, default) == IF key \in DOMAIN d THEN d[key] ELSE default

-----------------------------------------------------------------------------
(* The pagination control of the first page.                               *)

PaginationDiv(links) == [kind |-> "Tag", links |-> links]

Digits == <<"0", "1", "2", "3", "4", "5", "6", "7", "8", "9">>

IsNumeral(t) == Len(t) = 1 /\ \E i \in 1..Len(Digits) : Digits[i] = t[1]

\* int(text) of a one-digit numeral
IntOf(t) == (CHOOSE i \in 1..Len(Digits) : Digits[i] = t[1]) - 1

\* lines 153-158: the value assigned to total_pages, or the exception that
\* find_all("a")[-2] or int() raises
TotalPages(pag) ==
  IF pag = None THEN [raised |-> NoException, value |-> 1]
  ELSE IF Len(pag.links) < 2
  THEN [raised |-> Raise("IndexError", "pagination")]
  ELSE LET label == Strip(pag.links[Len(pag.links) - 1])
       IN  IF IsNumeral(label)
           THEN [raised |-> NoException, value |-> IntOf(label)]
           ELSE [raised |-> Raise("ValueError", "pagination")]

-----------------------------------------------------------------------------
(* What the environment supplies: the credential file, the earlier content *)
(* of the output file, the responses of the site.                          *)

CookieEntry(name, domain, hostOnly) ==
  [name |-> name, value |-> T(name), domain |-> domain, hostOnly |-> hostOnly]

\* one entry for every domain scope and hostOnly flag
SampleCookies ==
  << CookieEntry("site_host", T("www.goodreads.com"), TRUE),
     CookieEntry("site_wide", T(".goodreads.com"), FALSE),
     CookieEntry("other_host", T("example.com"), TRUE),
     CookieEntry("other_wide", T(".example.com"), FALSE),
     [name |-> "bare", value |-> T("bare")] >>

\* cookies.json: absent, present and not JSON, or a JSON array of entries
CookieFiles ==
  { [exists |-> FALSE, valid |-> FALSE, value |-> <<>>],
    [exists |-> TRUE, valid |-> FALSE, value |-> <<>>],
    [exists |-> TRUE, valid |-> TRUE, value |-> SampleCookies] }

\* what the output file holds before the run
OldContent == << <<T("left"), T("from"), T("an"), T("earlier"), T("run")>> >>

RowFull ==
  [title        |-> Cell(<<>>, Elem(<<WS, "Dune", WS>>)),
   date_started |-> Cell(<<>>, Elem(<<"Dec", WS, "31", ",", WS, "2022">>)),
   date_read    |-> Cell(<<>>, Elem(<<"Jan", WS, "5", ",", WS, "2023">>)),
   tooltip      |-> TooltipDiv("data-resource-id" :> T("44767458")),
   author       |-> Cell(<<>>, Elem(<<"Herbert,", WS, "Frank">>)),
   avg_rating   |-> Cell(<<WS, "4.27", WS>>, None),
   num_pages    |-> Cell(<<>>, Elem(<<"661", WS, "pp">>))]

\* the title cell holds no anchor
RowNoTitleAnchor == [RowFull EXCEPT !.title = Cell(<<>>, None)]

\* every field cell is there and none holds its nested element
RowBare ==
  [title        |-> Cell(<<>>, None),
   date_started |-> Cell(<<>>, None),
   date_read    |-> Cell(<<>>, None),
   tooltip      |-> None,
   author       |-> Cell(<<>>, None),
   avg_rating   |-> None,
   num_pages    |-> Cell(<<>>, None)]

\* the title cell itself is missing
RowNoTitleCell == [RowFull EXCEPT !.title = None]

\* the nobr element is there and holds no text
RowEmptyNobr == [RowFull EXCEPT !.num_pages = Cell(<<>>, Elem(<<WS>>))]

\* the tooltip div is there without its data-resource-id attribute
RowNoResourceId == [RowFull EXCEPT !.tooltip = TooltipDiv(<<>>)]

Rows ==
  {RowFull, RowNoTitleAnchor, RowBare, RowNoTitleCell, RowEmptyNobr, RowNoResourceId}

\* soup.find_all("tr", class_="bookalike review") of one response that shows
\* at most n books
RowLists(n) == UNION {[1..k -> Rows] : k \in 0..n}

RECURSIVE Flatten(_)
Flatten(lists) == IF lists = <<>> THEN <<>> ELSE Head(lists) \o Flatten(Tail(lists))

Numeral(n) == T(Digits[n + 1])

NextLink == <<"next", WS, ">>">>

PageLinks(from, to) == [i \in 1..(IF to < from THEN 0 ELSE to - from + 1) |-> Numeral(from + i - 1)]

\* soup.find("div", id="reviewPagination") of the first response: no such
\* div, or the div with its links: the page numbers from 1 or from 2 up to
\* some n, followed or not by the "next" link; and a control of two links
\* that are no numbers
PaginationInputs ==
  {None}
  \cup {PaginationDiv(PageLinks(from, n) \o tail) :
          from \in 1..2, n \in 0..MaxPages, tail \in {<<>>, <<NextLink>>}}
  \cup {PaginationDiv(<<T("previous"), NextLink>>)}

\* how a request ends: the response arrives, or session.get /
\* raise_for_status raises
FetchOutcomes == {"ok"} \cup RequestExceptions

-----------------------------------------------------------------------------
(* The run.                                                                *)

\* a plausible slip: the file opened in append mode
OpenForAppending(content) == content

\* open(output_file, "w"): the file is created or truncated
OpenForWriting(content) == <<>>

\* writer.writerow / writer.writeheader: one more line
WriteLine(file, line) == Append(file, line)

\* a plausible slip: range(1, total_pages + 2)
HasNextPageOffByOne(p, total) == p < total + 1

\* range(1, total_pages + 1) has a page after p
HasNextPage(p, total) == p < total

\* a plausible slip: no pause between the pages
NoPause(tr) == tr

\* time.sleep(1)
Pause(tr) == Append(tr, [ev |-> "sleep"])

\* fetch_html lines 67-72: the exception of the request is raised again
FetchRaises(kind) == Raise(kind, "fetch_html")

\* a plausible slip: a failed fetch skipped inside the loop, which goes on
RaisedToSkipFetch(e) == IF e.at = "fetch_html" THEN "loop" ELSE "except"

\* an exception raised inside the try block of lines 148-178 ends the block:
\* control goes to its except clause
RaisedTo(e) == "except"

\* the handler of line 180 catches the exception
Caught(e) == e.type = "HTTPError"

Init ==
  /\ pc = "start"
  /\ cookies = None
  /\ outFile = OldContent
  /\ pagination = None
  /\ total_pages = 0
  /\ page = 0
  /\ review_rows = <<>>
  /\ row_idx = 0
  /\ fetched = <<>>
  /\ trace = <<>>
  /\ printed = <<>>
  /\ exc = NoException
  /\ result = "none"

\* lines 122-131
LoadCookies ==
  /\ pc = "start"
  /\ \E f \in CookieFiles :
       /\ cookies' = IF f.exists /\ f.valid THEN f.value ELSE None
       /\ printed' = IF f.exists /\ ~f.valid
                     THEN Append(printed, "Warning: cookies.json is not valid JSON")
                     ELSE printed
  /\ pc' = "open"
  /\ UNCHANGED <<outFile, pagination, total_pages, page, review_rows, row_idx,
                 fetched, trace, exc, result>>

\* lines 134-145
OpenOutput ==
  /\ pc = "open"
  /\ outFile' = WriteLine(OpenForWriting(outFile), HeaderRow(fieldnames))
  /\ pc' = "discover"
  /\ UNCHANGED <<cookies, pagination, total_pages, page, review_rows, row_idx,
                 fetched, trace, printed, exc, result>>

\* lines 148-158: the first page is fetched and the number of pages read
\* from its pagination control
FetchFirstPage ==
  /\ pc = "discover"
  /\ trace' = Append(trace, Request(1, cookies))
  /\ \E outcome \in FetchOutcomes :
       IF outcome \in RequestExceptions
       THEN /\ exc' = FetchRaises(outcome)
            /\ pc' = RaisedTo(exc')
            /\ UNCHANGED <<pagination, total_pages, printed>>
       ELSE \E pag \in PaginationInputs :
              LET tp == TotalPages(pag)
              IN  /\ pagination' = pag
                  /\ IF tp.raised # NoException
                     THEN /\ exc' = tp.raised
                          /\ pc' = RaisedTo(exc')
                          /\ UNCHANGED <<total_pages, printed>>
                     ELSE /\ total_pages' = tp.value
                          /\ printed' = IF pag = None
                                        THEN Append(printed, "Could not determine total pages")
                                        ELSE printed
                          /\ pc' = "loop"
                          /\ UNCHANGED exc
  /\ UNCHANGED <<cookies, outFile, page, review_rows, row_idx, fetched, result>>

\* lines 161-167: the loop takes its next page and fetches it
FetchPage ==
  /\ pc = "loop"
  /\ HasNextPage(page, total_pages)
  /\ page' = page + 1
  /\ printed' = Append(printed, "Processing page")
  /\ trace' = Append(trace, Request(page + 1, cookies))
  /\ \E outcome \in FetchOutcomes :
       IF outcome \in RequestExceptions
       THEN /\ exc' = FetchRaises(outcome)
            /\ pc' = RaisedTo(exc')
            /\ UNCHANGED <<review_rows, row_idx, fetched>>
       ELSE \E rows \in RowLists(MaxBooks - Len(Flatten(fetched))) :
              /\ review_rows' = rows
              /\ row_idx' = 0
              /\ fetched' = Append(fetched, rows)
              /\ pc' = "rows"
              /\ UNCHANGED exc
  /\ UNCHANGED <<cookies, outFile, pagination, total_pages, result>>

\* lines 170-172: one row of the page
ProcessRow ==
  /\ pc = "rows"
  /\ row_idx < Len(review_rows)
  /\ row_idx' = row_idx + 1
  /\ LET book_data == process_review_row(review_rows[row_idx + 1])
     IN  IF book_data.raised # NoException
         THEN /\ exc' = book_data.raised
              /\ pc' = RaisedTo(exc')
              /\ UNCHANGED outFile
         ELSE /\ outFile' = WriteLine(outFile, DictRow(fieldnames, book_data.value))
              /\ UNCHANGED <<exc, pc>>
  /\ UNCHANGED <<cookies, pagination, total_pages, page, review_rows, fetched,
                 trace, printed, result>>

\* line 175: the rows of the page are done
Sleep ==
  /\ pc = "rows"
  /\ row_idx = Len(review_rows)
  /\ trace' = Pause(trace)
  /\ pc' = "loop"
  /\ UNCHANGED <<cookies, outFile, pagination, total_pages, page, review_rows,
                 row_idx, fetched, printed, exc, result>>

\* lines 177-178: the loop is over
ReturnTrue ==
  /\ pc = "loop"
  /\ ~HasNextPage(page, total_pages)
  /\ printed' = Append(printed, "Successfully processed")
  /\ result' = "True"
  /\ pc' = "returned"
  /\ UNCHANGED <<cookies, outFile, pagination, total_pages, page, review_rows,
                 row_idx, fetched, trace, exc>>

\* lines 180-186: an exception raised inside the try block is caught and
\* reported, or leaves the function and, main catching nothing, the program
HandleException ==
  /\ pc = "except"
  /\ IF Caught(exc)
     THEN /\ printed' = printed \o <<"Error downloading data", "This might be due to">>
          /\ result' = "False"
          /\ pc' = "returned"
     ELSE /\ printed' = Append(printed, "Traceback")
          /\ pc' = "propagated"
          /\ UNCHANGED result
  /\ UNCHANGED <<cookies, outFile, pagination, total_pages, page, review_rows,
                 row_idx, fetched, trace, exc>>

RECURSIVE AllDateRead(_)
\* a plausible slip: all() where any() is meant
AllDateRead(rows) ==
  IF rows = <<>> THEN [raised |-> FALSE, value |-> TRUE]
  ELSE LET v == DictGet(Head(rows), T("Date Read"), EmptyText)
       IN  IF v = None THEN [raised |-> TRUE, value |-> FALSE]
           ELSE IF Strip(v) = EmptyText THEN [raised |-> FALSE, value |-> FALSE]
           ELSE AllDateRead(Tail(rows))

RECURSIVE AnyDateRead(_)
\* any(row.get("Date Read", "").strip() for row in reader), which stops at
\* the first row that has one; .strip() of None raises
AnyDateRead(rows) ==
  IF rows = <<>> THEN [raised |-> FALSE, value |-> FALSE]
  ELSE LET v == DictGet(Head(rows), T("Date Read"), EmptyText)
       IN  IF v = None THEN [raised |-> TRUE, value |-> FALSE]
           ELSE IF Strip(v) # EmptyText THEN [raised |-> FALSE, value |-> TRUE]
           ELSE AnyDateRead(Tail(rows))

\* lines 196-210: what the check of the Date Read column prints
VerifyDateRead(file) ==
  LET has_any_date_read == AnyDateRead(DictReader(file))
  IN  IF has_any_date_read.raised THEN <<"Warning: Could not verify Date Read column">>
      ELSE IF ~has_any_date_read.value THEN <<"WARNING: The 'Date Read' column appears to be empty">>
      ELSE <<>>

\* lines 192-210
MainSuccess ==
  /\ pc = "returned"
  /\ result = "True"
  /\ printed' = printed \o <<"Data successfully written">> \o VerifyDateRead(outFile)
  /\ pc' = "exit"
  /\ UNCHANGED <<cookies, outFile, pagination, total_pages, page, review_rows,
                 row_idx, fetched, trace, exc, result>>

\* lines 211-212
MainFailure ==
  /\ pc = "returned"
  /\ result = "False"
  /\ printed' = Append(printed, "Failed to process Goodreads data")
  /\ pc' = "exit"
  /\ UNCHANGED <<cookies, outFile, pagination, total_pages, page, review_rows,
                 row_idx, fetched, trace, exc, result>>

Next ==
  \/ LoadCookies
  \/ OpenOutput
  \/ FetchFirstPage
  \/ FetchPage
  \/ ProcessRow
  \/ Sleep
  \/ ReturnTrue
  \/ HandleException
  \/ MainSuccess
  \/ MainFailure

Spec == Init /\ [][Next]_vars

-----------------------------------------------------------------------------
(* Vocabulary of the properties.                                           *)

InSeq(x, seq) == \E i \in 1..Len(seq) : seq[i] = x

IsGet(i) == trace[i].ev = "get"

\* the fetch of some page has failed
FetchFailed == exc.at = "fetch_html"

\* the run is over: main has printed its last line, or an exception has
\* left the program
RunOver == pc \in {"exit", "propagated"}

\* the output lines of review rows that all yield a record
RecordsOf(rows) ==
  [i \in 1..Len(rows) |-> DictRow(fieldnames, process_review_row(rows[i]).value)]

\* the number of the output line that holds row j of page p, the earlier
\* pages being written in full
LineOf(p, j) == 1 + Len(Flatten(SubSeq(fetched, 1, p - 1))) + j

\* the inner loop has taken row j of page p
Taken(p, j) == p < Len(fetched) \/ j <= row_idx

\* the run is no longer working on the rows of page p
PageOver(p) == p < Len(fetched) \/ pc # "rows"

\* the first response has arrived
FirstPageArrived ==
  /\ pc \notin {"start", "open", "discover"}
  /\ ~(FetchFailed /\ page = 0)

DomainInScope(cookie) ==
  /\ "domain" \in DOMAIN cookie
  /\ \/ cookie.domain = T("www.goodreads.com")
     \/ StartsWith(cookie.domain, T(".goodreads.com"))

AdvisoryPrinted == InSeq("WARNING: The 'Date Read' column appears to be empty", printed)

-----------------------------------------------------------------------------
(* C1.  Whatever the kind of failure of a fetch (HTTP status, network      *)
(* error, timeout), the run reports it: the failure message with the       *)
(* likely causes is printed, the function returns False and no exception   *)
(* leaves it.                                                              *)
C1_FetchFailureReported ==
  (FetchFailed /\ pc # "except") =>
     /\ pc # "propagated"
     /\ result = "False"
     /\ InSeq("Error downloading data", printed)
     /\ InSeq("This might be due to", printed)

(* C2.  Every review row the loop takes yields one record of the seven     *)
(* fields in the fixed order, a missing sub-field being the empty string,  *)
(* and the record is written: no row aborts the row, the page or the run.  *)
C2_EveryRowOneRecord ==
  /\ exc.at # "process_review_row"
  /\ \A p \in 1..Len(fetched) : \A j \in 1..Len(fetched[p]) :
       Taken(p, j) =>
         /\ LineOf(p, j) <= Len(outFile)
         /\ LET row  == fetched[p][j]
                line == outFile[LineOf(p, j)]
            IN  /\ Len(line) = Len(fieldnames)
                /\ row.tooltip = None => line[1] = EmptyText
                /\ (row.title = None \/ row.title.child = None) => line[2] = EmptyText
                /\ (row.date_started = None \/ row.date_started.child = None)
                      => line[3] = EmptyText
                /\ (row.date_read = None \/ row.date_read.child = None)
                      => line[4] = EmptyText
                /\ (row.author = None \/ row.author.child = None) => line[5] = EmptyText
                /\ row.avg_rating = None => line[6] = EmptyText
                /\ (row.num_pages = None \/ row.num_pages.child = None)
                      => line[7] = EmptyText

(* C3.  When the run has succeeded with N pages, the loop has requested    *)
(* the pages 1..N in that order and no other, and the lines of the output  *)
(* after the header are the records of those pages in page order, the      *)
(* rows of a page in document order, each once.                            *)
C3_PagesInOrderOnce ==
  result = "True" =>
     /\ Len(fetched) = total_pages
     /\ Len(SelectSeq(trace, LAMBDA e : e.ev = "get")) = total_pages + 1
     /\ \A p \in 1..total_pages :
          SelectSeq(trace, LAMBDA e : e.ev = "get")[p + 1].page = p
     /\ outFile = <<HeaderRow(fieldnames)>> \o RecordsOf(Flatten(fetched))

\* a run of two pages, both with rows, has succeeded
C3_Witness ==
  /\ result = "True"
  /\ total_pages = 2
  /\ Len(fetched) = 2
  /\ Len(fetched[1]) = 2
  /\ Len(fetched[2]) = 1
  /\ Len(outFile) = 4

(* C4.  Once the first page has arrived, discovery has not aborted the     *)
(* run, and total_pages is the number on the second-to-last link of the    *)
(* pagination control when the page has one, and 1 when it has none.       *)
C4_TotalPagesFromControl ==
  FirstPageArrived =>
     /\ exc.at # "pagination"
     /\ IF pagination = None THEN total_pages = 1
        ELSE /\ Len(pagination.links) >= 2
             /\ IsNumeral(Strip(pagination.links[Len(pagination.links) - 1]))
             /\ total_pages = IntOf(Strip(pagination.links[Len(pagination.links) - 1]))

(* C5.  After a successful run the Date Read advisory is printed exactly   *)
(* when no data line of the output file has a non-empty Date Read field.   *)
C5_AdvisoryIffNoDateRead ==
  (pc = "exit" /\ result = "True") =>
     (AdvisoryPrinted <=> \A i \in 2..Len(outFile) : outFile[i][4] = EmptyText)

\* two pages of one row each, no Date Read in either, and the advisory
C5_Witness ==
  /\ pc = "exit"
  /\ result = "True"
  /\ Len(fetched) = 2
  /\ Len(fetched[1]) = 1
  /\ Len(fetched[2]) = 1
  /\ Len(outFile) = 3
  /\ AdvisoryPrinted

(* C6.  Once a fetch has failed, no step of the run issues a request or    *)
(* a pause, and none writes to the output.                                 *)
C6_FetchFailureTerminal ==
  [][FetchFailed => (trace' = trace /\ outFile' = outFile)]_vars

\* the run is over after the fetch of page 2 failed, page 1 written
C6_Witness ==
  /\ FetchFailed
  /\ RunOver
  /\ page = 2
  /\ Len(outFile) > 1

(* C7.  A review row without title anchor that the loop takes is written   *)
(* with an empty title, and its page is not aborted: when the run is done  *)
(* with the page, all rows of the page are in the output.                  *)
C7_NoTitleAnchorRowEmitted ==
  \A p \in 1..Len(fetched) : \A j \in 1..Len(fetched[p]) :
    LET row == fetched[p][j]
    IN  ((row.title = None \/ row.title.child = None) /\ Taken(p, j)) =>
          /\ LineOf(p, j) <= Len(outFile)
          /\ outFile[LineOf(p, j)][2] = EmptyText
          /\ PageOver(p) => Len(outFile) >= LineOf(p, Len(fetched[p]))

(* C8.  Every cookie a request carries comes from an entry of the          *)
(* credential file whose domain is www.goodreads.com or begins with        *)
(* .goodreads.com.                                                         *)
C8_OnlyInScopeCookiesSent ==
  \A i \in 1..Len(trace) :
    IsGet(i) =>
      \A n \in DOMAIN trace[i].cookies :
        \E k \in 1..Len(cookies) :
          /\ cookies[k].name = n
          /\ cookies[k].value = trace[i].cookies[n]
          /\ DomainInScope(cookies[k])

(* C9, as stated.  Every request after the first of the run comes right    *)
(* after a pause.                                                          *)
C9_PauseBeforeEveryLaterFetch ==
  \A i \in 2..Len(trace) : IsGet(i) => trace[i - 1].ev = "sleep"

(* C9, amended.  Every request after the second of the run comes right     *)
(* after a pause; the first two requests, the fetch of page 1 for the      *)
(* pagination and the loop's fetch of page 1, follow each other with no    *)
(* pause between them.                                                     *)
C9_PauseBetweenLoopFetches ==
  /\ \A i \in 3..Len(trace) : IsGet(i) => trace[i - 1].ev = "sleep"
  /\ Len(trace) >= 2 =>
       /\ IsGet(1) /\ trace[1].page = 1
       /\ IsGet(2) /\ trace[2].page = 1

\* the loop has fetched its second page
C9_Witness ==
  /\ Len(trace) >= 4
  /\ IsGet(4)
  /\ trace[4].page = 2

(* C10.  The output file is truncated and its header written before the    *)
(* first request; and when the run has reported the failure of the fetch   *)
(* of page k, the file holds the header followed by exactly the records    *)
(* of the pages 1..k-1, nothing of its earlier content.                    *)
C10_FailedRunLeavesHeaderAndEarlierPages ==
  /\ trace # <<>> =>
       /\ outFile[1] = HeaderRow(fieldnames)
       /\ \A i \in 1..Len(outFile) : ~InSeq(outFile[i], OldContent)
  /\ result = "False" =>
       LET k == trace[Len(trace)].page
       IN  /\ FetchFailed
           /\ IsGet(Len(trace))
           /\ Len(fetched) = k - 1
           /\ outFile = <<HeaderRow(fieldnames)>> \o RecordsOf(Flatten(fetched))

\* the failure of the fetch of page 2 is reported, page 1 being written
C10_Witness ==
  /\ result = "False"
  /\ pc = "exit"
  /\ page = 2
  /\ Len(fetched) = 1
  /\ Len(outFile) = 3

====
